---- MODULE Spec2Model ----
(***************************************************************************)
(* BufStreamReader (src/src/reader.rs): a buffering adapter that turns a   *)
(* forward-only Read into a Read + Seek with a bounded look-back window.   *)
(*                                                                         *)
(* The wrapped source is a byte sequence that hands out at most `chunk`    *)
(* bytes per read call (chunk >= buffer_size is std::io::Cursor, smaller   *)
(* values are a pipe or socket delivering short reads); any one of its     *)
(* read calls may fail with an I/O error.  Source byte i (0-based) has the *)
(* value i + 1, so a zero byte of the freshly allocated buffer is never a  *)
(* byte of the source.                                                     *)
(***************************************************************************)
EXTENDS Integers, Sequences, FiniteSets, TLC

VARIABLES
    st,      \* "init" | "ready" | "failed" | "panicked" | "hung"
    self,    \* the BufStreamReader struct (reader.rs:4-11)
    last,    \* the last call: operation, argument, result, source reads
    hist     \* the calls since construction: `fresh` while they were reads
             \* none of which met an I/O error, `delivered` the bytes they
             \* returned while fresh, `all_ok` while every call returned Ok

vars == <<st, self, last, hist>>

----------------------------------------------------------------------------
(* Bounds of the model. *)

MaxW == 2          \* buffer_size ranges over 1..MaxW
MaxLen == 4        \* source length ranges over 0..MaxLen
MaxDst == 2        \* dst.len() of a read ranges over 0..MaxDst
MaxDelta == 2      \* SeekFrom::Current(d), d in -MaxDelta..MaxDelta
MaxFailIn == 2     \* which source read of a call fails, 0 = none
MaxCur == 3        \* a read may leave current_in_buffer at MaxCur at most

MaxPos == MaxLen + 1   \* SeekFrom::Start(pos), pos in 0..MaxPos

Min(a, b) == IF a <= b THEN a ELSE b
Max(a, b) == IF a >= b THEN a ELSE b

Zeros(n) == [i \in 1..Max(n, 0) |-> 0]

----------------------------------------------------------------------------
(* The wrapped source, R: Read. *)

\* The source bytes: byte i (1-based here) has value i.
SourceData(len) == [i \in 1..len |-> i]

\* One call of reader.read(&mut buf[..n]): an I/O error if this is the call
\* that fails (fail_in counts down to it), otherwise up to n bytes (at most
\* chunk per call), 0 bytes when the data is exhausted.  `log` records what
\* each call returned, -1 for the error.
SrcRead(s, n) ==
    IF s.fail_in = 1
    THEN [kind |-> "Io", bytes |-> <<>>,
          src |-> [s EXCEPT !.fail_in = 0, !.log = Append(@, -1)]]
    ELSE LET k == Min(Min(n, s.chunk), Len(s.data) - s.pos)
         IN  [kind |-> "Ok",
              bytes |-> SubSeq(s.data, s.pos + 1, s.pos + k),
              src |-> [s EXCEPT !.pos = @ + k,
                                !.fail_in = IF @ > 1 THEN @ - 1 ELSE 0,
                                !.log = Append(@, k)]]

----------------------------------------------------------------------------
(* std::io::Cursor<Vec<u8>>, the inner cursor over the buffer. *)

\* Cursor::read: copies min(n, len - min(pos, len)) bytes starting at pos.
CursorRead(c, n) ==
    LET start == Max(Min(c.pos, Len(c.buf)), 0)
        k == Min(Max(n, 0), Len(c.buf) - start)
    IN  [bytes |-> SubSeq(c.buf, start + 1, start + k),
         cursor |-> [c EXCEPT !.pos = @ + k]]

\* Cursor::seek(SeekFrom::Start(p)): sets the position to p and returns it.
CursorSeekStart(c, p) == [c EXCEPT !.pos = p]

----------------------------------------------------------------------------
(* BufStreamReader. *)

\* reader.rs:54: a first read of zero bytes is an UnexpectedEof error.
ZeroBytesIsEof_never(bytes) == FALSE
ZeroBytesIsEof(bytes) == bytes = 0

\* reader.rs:51-58
initialize_buffer(reader, buffer_size) ==
    LET r == SrcRead(reader, buffer_size)
    IN  IF r.kind = "Io"
        THEN [kind |-> "Io", reader |-> r.src]
        ELSE IF ZeroBytesIsEof(Len(r.bytes))
        THEN [kind |-> "UnexpectedEof", reader |-> r.src]
        ELSE [kind |-> "Ok", reader |-> r.src, bytes |-> Len(r.bytes),
              cursor |-> [buf |-> r.bytes \o Zeros(buffer_size - Len(r.bytes)),
                          pos |-> 0]]

\* reader.rs:19-31
new(reader, buffer_size) ==
    LET r == initialize_buffer(reader, buffer_size)
    IN  IF r.kind # "Ok"
        THEN [kind |-> r.kind, reader |-> r.reader]
        ELSE [kind |-> "Ok",
              self |-> [reader |-> r.reader,
                        cursor |-> r.cursor,
                        buffer_size |-> buffer_size,
                        bytes_in_buffer |-> r.bytes,
                        offset |-> 0,
                        current_in_buffer |-> 0]]

\* reader.rs:34-36 and 38-40
offset(s) == s.offset
current(s) == s.current_in_buffer

\* reader.rs:42-49
read_next_buffer(s) ==
    LET r == initialize_buffer(s.reader, s.buffer_size)
    IN  IF r.kind # "Ok"
        THEN [kind |-> r.kind, self |-> [s EXCEPT !.reader = r.reader]]
        ELSE [kind |-> "Ok",
              self |-> [s EXCEPT !.reader = r.reader,
                                 !.offset = @ + s.bytes_in_buffer,
                                 !.cursor = r.cursor,
                                 !.bytes_in_buffer = r.bytes,
                                 !.current_in_buffer = 0]]

\* reader.rs:82-105, the loop of read().  `dst` is what has been copied so
\* far and n is dst.len().  The Err arm of the match (reader.rs:95-102) is
\* never taken: the inner Cursor<Vec<u8>> does not fail.
RECURSIVE read_loop(_, _, _)
read_loop(s, n, dst) ==
    LET c == CursorRead(s.cursor, n - Len(dst))
        bytes == Len(c.bytes)
        dst1 == dst \o c.bytes
        s1 == [s EXCEPT !.cursor = c.cursor]
    IN  IF Len(dst1) = n
        THEN [kind |-> "Ok", val |-> Len(dst1), dst |-> dst1,
              self |-> [s1 EXCEPT !.current_in_buffer = @ + bytes]]
        ELSE LET r == read_next_buffer(s1)
             IN  IF r.kind # "Ok"
                 THEN [kind |-> r.kind, val |-> 0, dst |-> dst1, self |-> r.self]
                 ELSE read_loop(r.self, n, dst1)

\* reader.rs:82-105
read(s, n) == read_loop(s, n, <<>>)

\* reader.rs:65-68: (position_in_buffer - offset_in_buffer) / buffer_size,
\* the minuend of skip_buffers.
skip_quotient(position_in_buffer, buffer_size) ==
    (position_in_buffer - (position_in_buffer % buffer_size)) \div buffer_size

\* reader.rs:68: the u64 subtraction `(..) / buffer_size - 1` underflows
\* when the quotient is 0.
SkipUnderflows(quotient) == quotient = 0

\* The value 2^64 - 1 an underflowing subtraction wraps to in a build
\* without overflow checks: a loop count no run of the program finishes.
Wrapped == -1

\* The skip loop with `let _ = self.reader.read(..)` in place of `?`: an I/O
\* error of the source is dropped and the loop goes on reading.
RECURSIVE skip_loop_dropping_errors(_, _)
skip_loop_dropping_errors(s, k) ==
    IF k = 0
    THEN [kind |-> "Ok", self |-> s]
    ELSE IF k = Wrapped /\ s.reader.pos = Len(s.reader.data) /\ s.reader.fail_in = 0
    THEN [kind |-> "Hang", self |-> s]
    ELSE LET r == SrcRead(s.reader, s.buffer_size)
         IN  skip_loop_dropping_errors(
                 [s EXCEPT !.reader = r.src, !.offset = @ + Len(r.bytes)],
                 IF k = Wrapped THEN Wrapped ELSE k - 1)

\* reader.rs:71-74, the loop that skips whole buffers.  It does not look at
\* the number of bytes a read returned.  With a wrapped count the loop ends
\* only by an I/O error of the source; once the source is exhausted and no
\* error is pending, it reads zero bytes for ever ("Hang").
RECURSIVE skip_loop(_, _)
skip_loop(s, k) ==
    IF k = 0
    THEN [kind |-> "Ok", self |-> s]
    ELSE IF k = Wrapped /\ s.reader.pos = Len(s.reader.data) /\ s.reader.fail_in = 0
    THEN [kind |-> "Hang", self |-> s]
    ELSE LET r == SrcRead(s.reader, s.buffer_size)
             s1 == [s EXCEPT !.reader = r.src]
         IN  IF r.kind = "Io"
             THEN [kind |-> "Io", self |-> s1]
             ELSE skip_loop([s1 EXCEPT !.offset = @ + Len(r.bytes)],
                            IF k = Wrapped THEN Wrapped ELSE k - 1)

\* reader.rs:61-78.  overflow_checks: whether the build panics on integer
\* overflow (debug profile) or wraps (release profile).
seek_until_position(s, position_in_buffer, overflow_checks) ==
    IF position_in_buffer < s.bytes_in_buffer
    THEN [kind |-> "Ok", val |-> position_in_buffer, dst |-> <<>>, self |-> s]
    ELSE LET offset_in_buffer == position_in_buffer % s.buffer_size
             quotient == skip_quotient(position_in_buffer, s.buffer_size)
         IN  IF SkipUnderflows(quotient) /\ overflow_checks
             THEN [kind |-> "Panic", val |-> 0, dst |-> <<>>, self |-> s]
             ELSE LET skip_buffers == IF SkipUnderflows(quotient)
                                      THEN Wrapped ELSE quotient - 1
                      sk == skip_loop(s, skip_buffers)
                  IN  IF sk.kind # "Ok"
                      THEN [kind |-> sk.kind, val |-> 0, dst |-> <<>>, self |-> sk.self]
                      ELSE LET r == read_next_buffer(sk.self)
                           IN  [kind |-> r.kind,
                                val |-> IF r.kind = "Ok" THEN offset_in_buffer ELSE 0,
                                dst |-> <<>>,
                                self |-> r.self]

\* reader.rs:120-124 and 136-139, the common tail of both seek arms.
seek_in_stream(s, position_in_buffer, overflow_checks) ==
    LET r == IF position_in_buffer >= s.bytes_in_buffer
             THEN seek_until_position(s, position_in_buffer, overflow_checks)
             ELSE [kind |-> "Ok", val |-> position_in_buffer, dst |-> <<>>, self |-> s]
    IN  IF r.kind # "Ok"
        THEN r
        ELSE [kind |-> "Ok",
              val |-> r.val + r.self.offset,
              dst |-> <<>>,
              self |-> [r.self EXCEPT !.cursor = CursorSeekStart(@, r.val)]]

\* reader.rs:113: the target lies before the current buffer.
BeforeBuffer_off_by_one(pos, off) == pos + 1 < off
BeforeBuffer(pos, off) == pos < off

\* reader.rs:111-125, seek(SeekFrom::Start(pos))
seek_start(s, pos, overflow_checks) ==
    IF BeforeBuffer(pos, s.offset)
    THEN [kind |-> "InvalidData", val |-> 0, dst |-> <<>>, self |-> s]
    ELSE seek_in_stream(s, pos - s.offset, overflow_checks)

\* reader.rs:127-140, seek(SeekFrom::Current(pos))
seek_current(s, pos, overflow_checks) ==
    IF pos < 0 /\ -pos > s.current_in_buffer
    THEN [kind |-> "InvalidData", val |-> 0, dst |-> <<>>, self |-> s]
    ELSE seek_in_stream(s, pos + s.current_in_buffer, overflow_checks)

\* reader.rs:143-145, seek(SeekFrom::End(_)): unimplemented!() panics.
seek_end(s, pos) == [kind |-> "Panic", val |-> 0, dst |-> <<>>, self |-> s]

----------------------------------------------------------------------------
(* The state machine: a caller that constructs a reader over some source   *)
(* and then calls read and seek in any order.                              *)

Sources ==
    [data : {SourceData(len) : len \in 0..MaxLen},
     pos : {0},
     chunk : 1..MaxW,
     fail_in : {0},
     log : {<<>>}]

NoCall == [op |-> "none", arg |-> 0, kind |-> "Ok", val |-> 0, dst |-> <<>>,
           log |-> <<>>]

\* Before construction `self` holds what new() is going to be called with.
\* A source handing out buffer_size bytes per read or more is the same
\* source to this reader, so chunk stops at buffer_size.
Init ==
    /\ st = "init"
    /\ self \in {a \in [reader : Sources, buffer_size : 1..MaxW] :
                    a.reader.chunk <= a.buffer_size}
    /\ last = NoCall
    /\ hist = [fresh |-> TRUE, all_ok |-> TRUE, delivered |-> <<>>]

\* What a call leaves in st: a panic or a call that never returns ends the
\* use of the reader; an error result does not.
After(kind) ==
    CASE kind = "Panic" -> "panicked"
      [] kind = "Hang" -> "hung"
      [] OTHER -> "ready"

\* A call during which the source's read number `fail` fails with an I/O
\* error (0: none does).
Enter(s, fail) == [s EXCEPT !.reader.fail_in = fail]

\* The log of source reads belongs to one call: it is empty between calls
\* and is kept in `last`.  So does the pending failure.
Leave(s) == [s EXCEPT !.reader.log = <<>>, !.reader.fail_in = 0]

Called(op, arg, r) ==
    /\ st' = After(r.kind)
    /\ self' = Leave(r.self)
    /\ last' = [op |-> op, arg |-> arg, kind |-> r.kind, val |-> r.val,
                dst |-> r.dst, log |-> r.self.reader.log]

New ==
    /\ st = "init"
    /\ \E r \in {new(Enter(self, fail).reader, self.buffer_size) : fail \in 0..1} :
         /\ st' = IF r.kind = "Ok" THEN "ready" ELSE "failed"
         /\ self' = IF r.kind = "Ok" THEN Leave(r.self)
                    ELSE Leave([self EXCEPT !.reader = r.reader])
         /\ last' = [op |-> "new", arg |-> self.buffer_size, kind |-> r.kind,
                     val |-> 0, dst |-> <<>>,
                     log |-> IF r.kind = "Ok" THEN r.self.reader.log
                             ELSE r.reader.log]
    /\ UNCHANGED hist

Read ==
    /\ st = "ready"
    /\ \E n \in 0..MaxDst :
         \E r \in {read(Enter(self, fail), n) : fail \in 0..MaxFailIn} :
              /\ r.self.current_in_buffer <= MaxCur
              /\ Called("read", n, r)
              /\ hist' = [fresh |-> hist.fresh /\ r.kind # "Io",
                          all_ok |-> hist.all_ok /\ r.kind = "Ok",
                          delivered |-> IF hist.fresh /\ r.kind = "Ok"
                                        THEN hist.delivered \o r.dst
                                        ELSE IF r.kind = "Io" THEN <<>>
                                        ELSE hist.delivered]

Seeked(op, arg, r) ==
    /\ Called(op, arg, r)
    /\ hist' = [fresh |-> FALSE,
                all_ok |-> hist.all_ok /\ r.kind = "Ok",
                delivered |-> <<>>]

SeekStart ==
    /\ st = "ready"
    /\ \E pos \in 0..MaxPos :
         \E r \in {seek_start(Enter(self, fail), pos, overflow_checks) :
                      fail \in 0..MaxFailIn, overflow_checks \in BOOLEAN} :
            Seeked("seek_start", pos, r)

SeekCurrent ==
    /\ st = "ready"
    /\ \E pos \in -MaxDelta..MaxDelta :
         \E r \in {seek_current(Enter(self, fail), pos, overflow_checks) :
                      fail \in 0..MaxFailIn, overflow_checks \in BOOLEAN} :
            Seeked("seek_current", pos, r)

SeekEnd ==
    /\ st = "ready"
    /\ \E pos \in -1..0 :
         Seeked("seek_end", pos, seek_end(self, pos))

Next == New \/ Read \/ SeekStart \/ SeekCurrent \/ SeekEnd

Spec == Init /\ [][Next]_vars

----------------------------------------------------------------------------
(* Properties. *)

Data == self.reader.data
SourceLen == Len(self.reader.data)

\* The absolute stream position of the next byte a read delivers: the start
\* of the window plus the position of the inner cursor.
Position(s) == s.offset + s.cursor.pos

Seeks == {"seek_start", "seek_current"}

\* How many bytes the read calls before the last call had delivered.
DeliveredBefore ==
    Len(hist.delivered) - (IF last.op = "read" /\ last.kind = "Ok" THEN last.val ELSE 0)

\* C1: on a fresh reader whose source does not fail, with only read calls
\* made, every read returns dst.len() source bytes in order while enough
\* data remains, then the remaining bytes as a short read, then end-of-data.
C1_SequentialReads ==
    (st = "ready" /\ last.op = "read" /\ hist.fresh) =>
        LET c == DeliveredBefore
            n == last.arg
        IN  IF c + n <= SourceLen
            THEN /\ last.kind = "Ok"
                 /\ last.val = n
                 /\ last.dst = SubSeq(Data, c + 1, c + n)
            ELSE IF c < SourceLen
            THEN /\ last.kind = "Ok"
                 /\ last.val = SourceLen - c
                 /\ last.dst = SubSeq(Data, c + 1, SourceLen)
            ELSE last.kind = "UnexpectedEof"

\* C2: a read that follows a successful seek(Start(p)) and succeeds delivers
\* the source bytes from absolute position p on (all dst.len() of them, or
\* those that remain).
C2_SeekStartThenRead ==
    [][(last.op = "seek_start" /\ last.kind = "Ok"
        /\ last'.op = "read" /\ last'.kind = "Ok")
       => last'.dst = SubSeq(Data, last.arg + 1,
                             Min(last.arg + last'.arg, SourceLen))]_vars

\* C3: after successful reads and seeks only, a successful seek(Current(d))
\* returns the position the reader had before the call plus d.
C3_SeekCurrentReturnsPositionPlusDelta ==
    [][(st = "ready" /\ hist.all_ok /\ last'.op = "seek_current" /\ last'.kind = "Ok")
       => last'.val = Position(self) + last'.arg]_vars

\* C4: a read that has copied at least one byte into dst when a refill
\* reports end-of-data returns Ok with the number of bytes copied.
C4_ShortReadAtEndOfData ==
    (last.op = "read" /\ last.dst # <<>>
     /\ last.log # <<>> /\ last.log[Len(last.log)] = 0)
    => (last.kind = "Ok" /\ last.val = Len(last.dst))

\* C5: every byte a successful read delivers is a byte of the source, and
\* the reads of a fresh reader deliver a prefix of the source, so never more
\* than the source holds.
C5_NoInventedBytes ==
    /\ (last.op = "read" /\ last.kind = "Ok") =>
          \A i \in 1..Len(last.dst) : last.dst[i] \in 1..SourceLen
    /\ (st = "ready" /\ hist.fresh) =>
          /\ Len(hist.delivered) <= SourceLen
          /\ hist.delivered = SubSeq(Data, 1, Len(hist.delivered))

\* C6: seek(Start(p)) with p < offset() fails with an error and changes
\* nothing of the reader.
C6_SeekStartBeforeWindowFails ==
    [][(st = "ready" /\ last'.op = "seek_start" /\ last'.arg < offset(self))
       => (last'.kind = "InvalidData" /\ self' = self /\ st' = "ready")]_vars

\* A seek(Start(p)) with p below the window start has been made.
C6_Witness ==
    /\ last.op = "seek_start"
    /\ last.arg < offset(self)
    /\ last.kind = "InvalidData"
    /\ offset(self) > 0

\* C7: seek(Current(d)) with d < 0 and |d| greater than the position within
\* the current window fails with an error and changes nothing.
C7_SeekCurrentBeforeWindowFails ==
    [][(st = "ready" /\ last'.op = "seek_current"
        /\ last'.arg < 0 /\ -last'.arg > self.cursor.pos)
       => (last'.kind = "InvalidData" /\ self' = self /\ st' = "ready")]_vars

\* C8: seek(End(x)) returns an error to the caller, who keeps a usable and
\* unchanged reader.
C8_SeekEndReturnsError ==
    [][(st = "ready" /\ last'.op = "seek_end")
       => (last'.kind \notin {"Ok", "Panic", "Hang"}
           /\ st' = "ready" /\ self' = self)]_vars

\* C9: a successful seek returns offset() + current() as queried right after
\* it, and after a successful read or seek offset() + current() is the
\* position of the next byte a read delivers.
C9_PositionAccessors ==
    (st = "ready" /\ last.kind = "Ok" /\ last.op \in Seeks \cup {"read"}) =>
        /\ last.op \in Seeks => last.val = offset(self) + current(self)
        /\ offset(self) + current(self) = Position(self)

\* C10: new() over an empty source fails at once with end-of-data, and over
\* a non-empty source it yields a reader with offset() = 0, current() = 0
\* and a window holding the first bytes of the source (the source's read
\* not failing with an I/O error).
C10_EagerFill ==
    (last.op = "new" /\ last.kind # "Io") =>
        IF SourceLen = 0
        THEN st = "failed" /\ last.kind = "UnexpectedEof"
        ELSE /\ st = "ready" /\ last.kind = "Ok"
             /\ offset(self) = 0 /\ current(self) = 0 /\ self.cursor.pos = 0
             /\ self.bytes_in_buffer \in 1..self.buffer_size
             /\ Len(self.cursor.buf) = self.buffer_size
             /\ SubSeq(self.cursor.buf, 1, self.bytes_in_buffer)
                  = SubSeq(Data, 1, self.bytes_in_buffer)

\* new() has been called over an empty source and has failed.
C10_Witness ==
    /\ last.op = "new"
    /\ SourceLen = 0
    /\ st = "failed"
    /\ last.kind = "UnexpectedEof"

\* The source has handed out all its bytes and the reader has delivered
\* every live byte of its window.
AtEndOfData(s) ==
    /\ s.reader.pos = Len(s.reader.data)
    /\ s.cursor.pos >= s.bytes_in_buffer

\* C11: a read with a non-empty dst made when no unread source byte remains
\* returns an end-of-data error and delivers no byte (the source's read not
\* failing with an I/O error).
C11_ReadAtEndOfData ==
    [][(st = "ready" /\ AtEndOfData(self)
        /\ last'.op = "read" /\ last'.arg > 0 /\ last'.kind # "Io")
       => (last'.kind = "UnexpectedEof" /\ last'.dst = <<>>)]_vars

Calls == {"new", "read"} \cup Seeks

\* C12: when a read of the source fails with an I/O error during new, read
\* or seek, the call returns that error and the failed read is the last read
\* of the source the call makes.
C12_IoErrorPropagates ==
    last.op \in Calls =>
        /\ (\E i \in 1..Len(last.log) : last.log[i] = -1) =>
              /\ last.kind = "Io"
              /\ \A i \in 1..Len(last.log) : last.log[i] = -1 => i = Len(last.log)
        /\ last.kind = "Io" => (last.log # <<>> /\ last.log[Len(last.log)] = -1)

\* A seek has read the source with success, then met an I/O error of the
\* source and returned it.
C12_Witness ==
    /\ last.op \in Seeks
    /\ last.kind = "Io"
    /\ Len(last.log) >= 2
    /\ last.log[Len(last.log)] = -1

RECURSIVE SumSeq(_)
SumSeq(q) == IF q = <<>> THEN 0 ELSE Max(Head(q), 0) + SumSeq(Tail(q))

Front(q) == SubSeq(q, 1, Len(q) - 1)

\* The absolute target of the seek that leads from this state to the next.
Target == IF last'.op = "seek_start" THEN last'.arg ELSE Position(self) + last'.arg

\* C13: a successful seek to a target t beyond the current window returns t
\* and leaves offset() <= t, the cursor at t - offset() and below the live
\* bytes of the new window, so t lies inside the source's data; offset() has
\* grown by the live bytes of the windows discarded on the way.
C13_ForwardSeekLandsInWindow ==
    [][(st = "ready" /\ last'.op \in Seeks /\ last'.kind = "Ok"
        /\ Target >= self.offset + self.bytes_in_buffer)
       => /\ last'.val = Target
          /\ offset(self') <= Target
          /\ self'.cursor.pos = Target - offset(self')
          /\ self'.cursor.pos < self'.bytes_in_buffer
          /\ Target < SourceLen
          /\ offset(self') - offset(self)
               = self.bytes_in_buffer + SumSeq(Front(last'.log))]_vars

\* C14: cursor <= filled <= W in every state after construction.
C14_CursorWithinWindow ==
    st = "ready" =>
        /\ self.cursor.pos <= self.bytes_in_buffer
        /\ self.bytes_in_buffer <= self.buffer_size

\* The byte counts of the source reads of a call that loaded a window.
RECURSIVE Loaded(_)
Loaded(q) ==
    IF q = <<>> THEN <<>>
    ELSE IF Head(q) > 0 THEN <<Head(q)>> \o Loaded(Tail(q)) ELSE Loaded(Tail(q))

\* The live bytes of the windows the call from this state to the next has
\* discarded: a read discards the window it had and every window it loaded
\* but the last; a seek that succeeds after reading the source discards the
\* window it had and the buffers it skipped; any other call discards none.
DiscardedBytes ==
    IF last'.op = "read"
    THEN IF Loaded(last'.log) = <<>> THEN 0
         ELSE self.bytes_in_buffer + SumSeq(Front(Loaded(last'.log)))
    ELSE IF last'.kind = "Ok" /\ last'.log # <<>>
         THEN self.bytes_in_buffer + SumSeq(Front(last'.log))
         ELSE 0

\* C15: offset() never decreases; a call raises it by exactly the live bytes
\* of the windows it discards, and a call that discards no window (a seek
\* that fails among them) leaves it unchanged.
C15_OffsetAdvancesByDiscardedWindows ==
    [][(st = "ready" /\ st' = "ready" /\ last'.op \in Seeks \cup {"read"})
       => /\ offset(self') >= offset(self)
          /\ offset(self') - offset(self) = DiscardedBytes]_vars

\* C16: the live bytes of the window are the source bytes at positions
\* offset() .. offset() + filled - 1, also after a call that failed.
C16_WindowIsSourceAtOffset ==
    st = "ready" =>
        SubSeq(self.cursor.buf, 1, self.bytes_in_buffer)
          = SubSeq(Data, offset(self) + 1, offset(self) + self.bytes_in_buffer)

\* C17: within one read or seek call, a read of the source that returns zero
\* bytes is the last one of the call, and the call fails with end-of-data.
C17_ZeroReadEndsTheCall ==
    last.op \in Seeks \cup {"read"} =>
        \A i \in 1..Len(last.log) :
            last.log[i] = 0 => (i = Len(last.log) /\ last.kind = "UnexpectedEof")

\* C18: every read call and every seek(Start) or seek(Current) call returns
\* Ok or Err after finitely many reads of the source.
C18_CallsReturn ==
    last.op \in Seeks \cup {"read"} => last.kind \notin {"Panic", "Hang"}

\* The in-window target of the seek that leads to the next state, as the
\* code computes it (reader.rs:120, 134).
PositionInBuffer ==
    IF last'.op = "seek_start" THEN last'.arg - self.offset
    ELSE last'.arg + self.current_in_buffer

\* C19: whenever a seek enters seek_until_position (its in-window target is
\* at or beyond the live bytes of the window), the quotient that
\* skip_buffers subtracts 1 from is at least 1.
C19_SkipCountNeverUnderflows ==
    [][(st = "ready" /\ last'.op \in Seeks /\ last'.kind # "InvalidData"
        /\ PositionInBuffer >= self.bytes_in_buffer)
       => ~SkipUnderflows(skip_quotient(PositionInBuffer, self.buffer_size))]_vars

====
